---------------------------- MODULE Spec2Model ----------------------------
(***************************************************************************)
(* Klarity Architect Template Factory (app.py).                            *)
(*                                                                         *)
(* Text is a sequence of characters; a character is a one-character        *)
(* string, except the control characters, which are named (LF, CR, TAB),   *)
(* and the fixed literals of the f-strings, which are kept as one element. *)
(***************************************************************************)
EXTENDS Integers, Sequences, FiniteSets, TLC

VARIABLES
    master_context,      \* st.text_area value (app.py:151)
    input_files,         \* st.session_state.input_files
    sections,            \* st.session_state.sections
    docx_file,           \* st.session_state.docx_file (NoFile when the key is not set)
    file_name,           \* st.session_state.file_name (NoFile when the key is not set)
    pc,                  \* "idle", or "batch" while the Generate handler is in its loop
    i,                   \* loop index of the batch (0-based, as enumerate gives it)
    processed_sections,  \* the local list the batch accumulates
    ui,                  \* what the last run of the Generate handler showed (st.warning, st.error, ...)
    api_calls,           \* the prompts sent to the model by the last run of the handler
    arg,                 \* a helper function applied on its own: the function and its input
    ret                  \* its outcome, Pending before the call

vars == <<master_context, input_files, sections, docx_file, file_name, pc, i,
          processed_sections, ui, api_calls, arg, ret>>

appVars == <<master_context, input_files, sections, docx_file, file_name, pc, i,
             processed_sections, ui, api_calls>>

(***************************************************************************)
(* Characters and Python values                                            *)
(***************************************************************************)
LF  == "LF"     \* U+000A
CR  == "CR"     \* U+000D
TAB == "TAB"    \* U+0009
BSL == "\\"     \* the backslash

\* str.strip() with no argument strips these (of the characters modelled)
Whitespace == {" ", TAB, LF, CR}

PyNone     == [ty |-> "None"]
PyS(s)     == [ty |-> "str", s |-> s]
PyInt      == [ty |-> "int"]              \* the number 7
PyList(es)   == [ty |-> "list", elems |-> es]
PyDict(kvs)  == [ty |-> "dict", items |-> kvs]   \* kvs: sequence of <<key text, value>>

\* Outcomes of a call: a returned value with the st.error messages it showed,
\* or an exception that leaves the function.
Return(v, errs) == [kind |-> "return", value |-> v, st_error |-> errs]
Raise(exc)      == [kind |-> "raise", exc |-> exc]

\* str.replace(old, new): left to right, non-overlapping occurrences
RECURSIVE Replace(_, _, _)
Replace(s, old, new) ==
    IF Len(s) < Len(old) THEN s
    ELSE IF SubSeq(s, 1, Len(old)) = old
         THEN new \o Replace(SubSeq(s, Len(old) + 1, Len(s)), old, new)
         ELSE <<Head(s)>> \o Replace(Tail(s), old, new)

\* str(x) as the f-string applies it to a decoded JSON value
RECURSIVE PyStr(_)
RECURSIVE PyJoin(_)
PyJoin(es) ==
    IF es = <<>> THEN <<>>
    ELSE PyStr(Head(es)) \o (IF Len(es) > 1 THEN <<",", " ">> ELSE <<>>) \o PyJoin(Tail(es))
PyStr(v) ==
    CASE v.ty = "str"  -> v.s
      [] v.ty = "None" -> <<"N", "o", "n", "e">>
      [] v.ty = "int"  -> <<"7">>
      [] v.ty = "list" -> <<"[">> \o PyJoin(v.elems) \o <<"]">>
      [] v.ty = "dict" -> <<"{", "}">>     \* the replies modelled carry no non-empty dict as a field

(***************************************************************************)
(* json.loads: the reply text is a sequence of lexical tokens              *)
(***************************************************************************)
P(c)     == [t |-> "punct", c |-> c]        \* one of { } [ ] : ,
Q(raw)   == [t |-> "string", raw |-> raw]   \* "..." with raw the text between the quotes
Num      == [t |-> "number"]                \* the literal 7
Null     == [t |-> "null"]
Word(w)  == [t |-> "word", w |-> w]         \* any other run of letters

IsP(tok, c) == tok.t = "punct" /\ tok.c = c

\* py_scanstring (strict): decodes the escapes; a raw control character, an
\* unknown escape or a backslash at the end is a JSONDecodeError.
RECURSIVE ScanString(_)
ScanString(raw) ==
    IF raw = <<>> THEN [ok |-> TRUE, s |-> <<>>]
    ELSE IF Head(raw) \in {LF, CR, TAB} THEN [ok |-> FALSE]
    ELSE IF Head(raw) = BSL
         THEN IF Len(raw) < 2 \/ raw[2] \notin {"n", "r", BSL} THEN [ok |-> FALSE]
              ELSE LET rest == ScanString(SubSeq(raw, 3, Len(raw)))
                       c    == CASE raw[2] = "n" -> LF [] raw[2] = "r" -> CR [] OTHER -> BSL
                   IN  IF rest.ok THEN [ok |-> TRUE, s |-> <<c>> \o rest.s] ELSE rest
         ELSE LET rest == ScanString(Tail(raw))
              IN  IF rest.ok THEN [ok |-> TRUE, s |-> <<Head(raw)>> \o rest.s] ELSE rest

Fail == [ok |-> FALSE]

\* scan_once: the value that starts at token p; next is the position after it
RECURSIVE ParseValue(_, _)
RECURSIVE ParseElems(_, _, _)
RECURSIVE ParseMembers(_, _, _)
ParseValue(toks, p) ==
    IF p > Len(toks) THEN Fail
    ELSE LET tok == toks[p] IN
      CASE tok.t = "string" ->
             LET d == ScanString(tok.raw)
             IN  IF d.ok THEN [ok |-> TRUE, val |-> PyS(d.s), next |-> p + 1] ELSE Fail
        [] tok.t = "number" -> [ok |-> TRUE, val |-> PyInt, next |-> p + 1]
        [] tok.t = "null"   -> [ok |-> TRUE, val |-> PyNone, next |-> p + 1]
        [] tok.t = "word"   -> Fail
        [] tok.t = "punct"  ->
             IF tok.c = "[" THEN
                 IF p + 1 <= Len(toks) /\ IsP(toks[p + 1], "]")
                 THEN [ok |-> TRUE, val |-> PyList(<<>>), next |-> p + 2]
                 ELSE ParseElems(toks, p + 1, <<>>)
             ELSE IF tok.c = "{" THEN
                 IF p + 1 <= Len(toks) /\ IsP(toks[p + 1], "}")
                 THEN [ok |-> TRUE, val |-> PyDict(<<>>), next |-> p + 2]
                 ELSE ParseMembers(toks, p + 1, <<>>)
             ELSE Fail

\* JSONArray: value ("," value)* "]"
ParseElems(toks, p, acc) ==
    LET v == ParseValue(toks, p) IN
    IF ~v.ok \/ v.next > Len(toks) THEN Fail
    ELSE IF IsP(toks[v.next], "]")
         THEN [ok |-> TRUE, val |-> PyList(Append(acc, v.val)), next |-> v.next + 1]
    ELSE IF IsP(toks[v.next], ",")
         THEN ParseElems(toks, v.next + 1, Append(acc, v.val))
    ELSE Fail

\* JSONObject: string ":" value ("," string ":" value)* "}"
ParseMembers(toks, p, acc) ==
    IF p + 1 > Len(toks) \/ toks[p].t # "string" \/ ~IsP(toks[p + 1], ":") THEN Fail
    ELSE LET k == ScanString(toks[p].raw)
             v == ParseValue(toks, p + 2) IN
         IF ~k.ok \/ ~v.ok \/ v.next > Len(toks) THEN Fail
         ELSE IF IsP(toks[v.next], "}")
              THEN [ok |-> TRUE, val |-> PyDict(Append(acc, <<k.s, v.val>>)), next |-> v.next + 1]
         ELSE IF IsP(toks[v.next], ",")
              THEN ParseMembers(toks, v.next + 1, Append(acc, <<k.s, v.val>>))
         ELSE Fail

\* json.loads(s): one value and nothing after it, else JSONDecodeError
json_loads(toks) ==
    LET v == ParseValue(toks, 1) IN
    IF v.ok /\ v.next = Len(toks) + 1 THEN [ok |-> TRUE, val |-> v.val] ELSE Fail

\* dict.get(key, default): the last member with that key wins in json.loads
HasKey(d, key) == \E n \in 1..Len(d.items) : d.items[n][1] = key
DictGet(d, key, default) ==
    IF HasKey(d, key)
    THEN d.items[CHOOSE n \in 1..Len(d.items) :
                    /\ d.items[n][1] = key
                    /\ \A m \in (n + 1)..Len(d.items) : d.items[m][1] # key][2]
    ELSE default

(***************************************************************************)
(* format_comment_string (app.py:80-104)                                   *)
(***************************************************************************)
\* the five keys; a key is a fixed literal, kept as one element
K_type        == <<"type">>
K_sub_type    == <<"sub_type">>
K_prompt      == <<"prompt">>
K_include     == <<"include_screenshots">>
K_instr       == <<"screenshot_instructions">>

InvalidFormatMsg == "AI returned an invalid format. Could not parse the comment data."

\* lines 88-93 on a str
EscapePrompt(prompt_content) ==
    LET p1 == Replace(prompt_content, <<"*", "*">>, <<"*">>)
        p2 == Replace(p1, <<CR, LF>>, <<LF>>)
    IN  Replace(p2, <<LF>>, <<BSL, "n">>)

\* lines 96-100
CommentText(data, prompt_content) ==
    <<"type - ">> \o PyStr(DictGet(data, K_type, PyS(<<>>))) \o <<LF>>
    \o <<"sub_type - ">> \o PyStr(DictGet(data, K_sub_type, PyS(<<>>))) \o <<LF>>
    \o <<"prompt - ">> \o prompt_content \o <<LF>>
    \o <<"include_screenshots - ">> \o PyStr(DictGet(data, K_include, PyS(<<"n", "o">>))) \o <<LF>>
    \o <<"screenshot_instructions - ">>
    \o PyStr(DictGet(data, K_instr, PyS(<<"n", "o", "n", "e">>)))

\* format_comment_string without its except clause: the JSONDecodeError leaves it
format_comment_string_NoExcept(json_string) ==
    LET parsed == json_loads(json_string) IN
    IF ~parsed.ok
    THEN Raise("JSONDecodeError")
    ELSE LET data == parsed.val IN
         IF data.ty # "dict" THEN Raise("AttributeError")
         ELSE LET prompt_content == DictGet(data, K_prompt, PyS(<<>>)) IN
              IF prompt_content.ty # "str" THEN Raise("AttributeError")
              ELSE Return(PyS(CommentText(data, EscapePrompt(prompt_content.s))), <<>>)

format_comment_string(json_string) ==
    LET parsed == json_loads(json_string) IN
    IF ~parsed.ok
    THEN Return(PyNone, <<InvalidFormatMsg>>)            \* except json.JSONDecodeError
    ELSE LET data == parsed.val IN
         IF data.ty # "dict" THEN Raise("AttributeError")  \* data.get on a non-dict
         ELSE LET prompt_content == DictGet(data, K_prompt, PyS(<<>>)) IN
              IF prompt_content.ty # "str" THEN Raise("AttributeError")  \* .replace on a non-str
              ELSE Return(PyS(CommentText(data, EscapePrompt(prompt_content.s))), <<>>)

(***************************************************************************)
(* The replies the model may send                                          *)
(***************************************************************************)
MaxRawLen == 5     \* longest raw text between the quotes of the prompt's string literal

RawChars == {"*", BSL, "n", "r", LF}

RECURSIVE SeqsUpTo(_, _)
SeqsUpTo(S, n) ==
    IF n = 0 THEN {<<>>}
    ELSE LET shorter == SeqsUpTo(S, n - 1)
         IN  shorter \cup {Append(s, c) : s \in {t \in shorter : Len(t) = n - 1}, c \in S}

\* json.dumps of an object, token by token: members is a sequence of
\* <<key, value tokens>>
RECURSIVE DumpMembers(_)
DumpMembers(members) ==
    IF members = <<>> THEN <<>>
    ELSE <<Q(Head(members)[1]), P(":")>> \o Head(members)[2]
         \o (IF Len(members) > 1 THEN <<P(",")>> ELSE <<>>) \o DumpMembers(Tail(members))
DumpObject(members) == <<P("{")>> \o DumpMembers(members) \o <<P("}")>>

Absent == <<>>      \* a key that the object does not carry
\* the members of an object with these five values (Absent: no such key)
Members(ty, st, pr, inc, ins) ==
    LET m(k, v) == IF v = Absent THEN <<>> ELSE << <<k, v>> >>
    IN  m(K_type, ty) \o m(K_sub_type, st) \o m(K_prompt, pr) \o m(K_include, inc) \o m(K_instr, ins)

\* value tokens of a field other than prompt
FieldTokens == {Absent, <<Q(<<"n">>)>>, <<Q(<<BSL, "n">>)>>, <<Null>>}
\* value tokens of prompt that are no string, and a few that are
PromptTokens == {Absent, <<Q(<<"*", "*", "n", "*", "*">>)>>, <<Null>>, <<Num>>,
                 <<P("["), P("]")>>, <<P("["), Num, P("]")>>, <<P("{"), P("}")>>}

\* every raw prompt text up to MaxRawLen, in an object with no other key and
\* in an object with all five keys
PromptRichReplies ==
    {DumpObject(Members(f, f, <<Q(raw)>>, f, f)) :
        raw \in SeqsUpTo(RawChars, MaxRawLen), f \in {Absent, <<Q(<<"n">>)>>}}
FieldRichReplies ==
    {DumpObject(Members(ty, st, pr, inc, ins)) :
        ty \in FieldTokens, st \in FieldTokens, pr \in PromptTokens,
        inc \in FieldTokens, ins \in FieldTokens}
\* JSON values that are no object
ScalarReplies ==
    {<<Null>>, <<Num>>, <<Q(<<"n">>)>>, <<P("["), P("]")>>, <<P("["), Num, P(","), Null, P("]")>>}
\* a key given twice: the last one wins
DuplicateKeyReplies ==
    {DumpObject(<< <<K_prompt, a>>, <<K_prompt, b>> >>) :
        a \in PromptTokens \ {Absent}, b \in PromptTokens \ {Absent}}
\* texts that are no JSON: words, the empty text, every proper prefix of an
\* object, an object followed or interrupted by one more token
SampleObjects ==
    {DumpObject(Members(Absent, Absent, pr, f, Absent)) :
        pr \in PromptTokens, f \in {Absent, <<Q(<<"n">>)>>}}
BrokenReplies ==
    {<<Word("not"), Word("json")>>, <<>>, <<Word("type")>>, <<Q(<<BSL>>)>>, <<Q(<<LF>>)>>}
    \cup UNION {{SubSeq(r, 1, n) : n \in 1..(Len(r) - 1)} : r \in SampleObjects}
    \cup {r \o <<t>> : r \in SampleObjects, t \in {P("}"), P(","), Null, Word("ok")}}
    \cup {<<P("{")>> \o r : r \in SampleObjects}

Replies == PromptRichReplies \cup FieldRichReplies \cup ScalarReplies
           \cup DuplicateKeyReplies \cup BrokenReplies

(***************************************************************************)
(* create_meta_prompt (app.py:19-77)                                       *)
(***************************************************************************)
\* create_meta_prompt that leaves the input files out of the prompt
create_meta_prompt_NoFiles(mc, files, section_title, section_goal, output_format) ==
    <<"You are an AI assistant ... **Master Template Context:** ---">> \o mc
    \o <<"---">>
    \o <<"**Section Details to Configure:** * **Section Title:** \"">> \o section_title
    \o <<"\" * **Plain Language Goal:** \"">> \o section_goal
    \o <<"\" * **Required Output Format:** \"">> \o output_format
    \o <<"\" **Your Instructions:** ... determine the best 'sub_type' for the '">>
    \o output_format
    \o <<"'. ... **CRITICAL OUTPUT FORMAT:** ... Example of a perfect response: {...}">>

\* The literal parts of the f-string are kept as one element each.
create_meta_prompt(mc, files, section_title, section_goal, output_format) ==
    LET FileLine(f) == <<"- **">> \o f.name \o <<"** (">> \o f.type \o <<"): ">>
                       \o f.description \o <<LF>>
        Lines[n \in 0..Len(files)] ==
            IF n = 0 THEN <<>> ELSE Lines[n - 1] \o FileLine(files[n])
        input_files_context ==
            IF files = <<>> THEN <<>>
            ELSE <<"**Available Input Files:**", LF>> \o Lines[Len(files)]
    IN  <<"You are an AI assistant ... **Master Template Context:** ---">> \o mc
        \o <<"---">> \o input_files_context
        \o <<"**Section Details to Configure:** * **Section Title:** \"">> \o section_title
        \o <<"\" * **Plain Language Goal:** \"">> \o section_goal
        \o <<"\" * **Required Output Format:** \"">> \o output_format
        \o <<"\" **Your Instructions:** ... determine the best 'sub_type' for the '">>
        \o output_format
        \o <<"'. ... **CRITICAL OUTPUT FORMAT:** ... Example of a perfect response: {...}">>

(***************************************************************************)
(* create_docx (app.py:107-137)                                            *)
(***************************************************************************)
EmptyDocument == [headings |-> <<>>, comments |-> <<>>]     \* Document()

\* if section.get('comment_string'): None and '' are both falsy
Truthy(v) == v.ty = "str" /\ v.s # <<>>

\* the loop's turn with the heading added only in the branch that comments
AddSectionToDocument_HeadingOnlyWithComment(document, section) ==
    IF Truthy(section.comment_string)
    THEN [headings |-> Append(document.headings, [text |-> section.title, level |-> 1]),
          comments |-> Append(document.comments,
                              [anchor   |-> Len(document.headings) + 1,
                               text     |-> section.comment_string.s,
                               author   |-> "System",
                               initials |-> "S"])]
    ELSE document

\* one turn of the loop, lines 112-131
AddSectionToDocument(document, section) ==
    LET heading == [text |-> section.title, level |-> 1]
        withHeading == [document EXCEPT !.headings = Append(@, heading)]
    IN  IF Truthy(section.comment_string)
        THEN [withHeading EXCEPT !.comments =
                 Append(@, [anchor   |-> Len(withHeading.headings),
                            text     |-> section.comment_string.s,
                            author   |-> "System",
                            initials |-> "S"])]
        ELSE withHeading

create_docx(template_title, processed) ==
    LET Doc[n \in 0..Len(processed)] ==
            IF n = 0 THEN EmptyDocument
            ELSE AddSectionToDocument(Doc[n - 1], processed[n])
    IN  [ty |-> "BytesIO", document |-> Doc[Len(processed)], pos |-> 0]

(***************************************************************************)
(* The page: session state, the form, the Generate handler                 *)
(***************************************************************************)
NoFile == [ty |-> "unset"]      \* the key is not in st.session_state

\* str.strip()
RECURSIVE LStrip(_)
LStrip(s) == IF s # <<>> /\ Head(s) \in Whitespace THEN LStrip(Tail(s)) ELSE s
RECURSIVE RStrip(_)
RStrip(s) ==
    IF s # <<>> /\ s[Len(s)] \in Whitespace THEN RStrip(SubSeq(s, 1, Len(s) - 1)) ELSE s
Strip(s) == RStrip(LStrip(s))

\* s.split('&')[0]
RECURSIVE BeforeAmp(_)
BeforeAmp(s) ==
    IF s = <<>> \/ Head(s) = "&" THEN <<>> ELSE <<Head(s)>> \o BeforeAmp(Tail(s))

\* the file name without the strip()
FileName_NoStrip(first_title) ==
    <<"Klarity_Template_">> \o Replace(BeforeAmp(first_title), <<" ">>, <<"_">>) \o <<".docx">>

\* line 280
FileName(first_title) ==
    <<"Klarity_Template_">> \o Replace(Strip(BeforeAmp(first_title)), <<" ">>, <<"_">>)
    \o <<".docx">>

\* line 277
TemplateTitle(first_title) == Strip(BeforeAmp(first_title))

\* lines 163-167 and 193-197; a word of a default text is one element, and the
\* two long sentences are cut short
DefaultInputFile ==
    [name        |-> <<"Discovery", " ", "Call", " ", "Transcript">>,
     type        |-> <<"DOCX">>,
     description |-> <<"Meeting", " ", "notes", " ", "and", " ", "transcript", "...">>]
DefaultSection ==
    [title  |-> <<"Executive", " ", "Summary", " ", "&", " ", "Key", " ", "Themes">>,
     format |-> <<"Text (Freeform)">>,
     goal   |-> <<"Summarize", " ", "the", " ", "client's", " ", "profile", "...">>]
\* lines 184 and 214
NewInputFile == [name |-> <<>>, type |-> <<"DOCX">>, description |-> <<>>]
NewSection   == [title |-> <<>>, format |-> <<"Text (Freeform)">>, goal |-> <<>>]

\* A selectbox that is drawn for the first time returns its first option
\* (index=0), and lines 175 and 205 write it into the row.
FirstDrawFile(row)    == [row EXCEPT !.type = <<"PDF">>]
FirstDrawSection(row) == [row EXCEPT !.format = <<"Text (Freeform)">>]

FileTypes == {<<"PDF">>, <<"DOCX">>, <<"XLSX">>, <<"MP4">>, <<"TXT">>, <<"CSV">>}   \* line 175
Formats   == {<<"Text (Freeform)">>, <<"Text (Bulleted)">>, <<"Table">>}           \* line 205

Warning(text) == [kind |-> "warning", text |-> text]
Error(text)   == [kind |-> "error", text |-> text]
Info(text)    == [kind |-> "info", text |-> text]
Success(text) == [kind |-> "success", text |-> text]

\* the chain without its last elif
Validate_NoGoalCheck(mc, files, secs) ==
    IF Strip(mc) = <<>> THEN "Please provide a Master Context before generating."
    ELSE IF files = <<>> THEN "Please add at least one input file."
    ELSE IF \E n \in 1..Len(files) : Strip(files[n].name) = <<>>
         THEN "Please provide names for all input files."
    ELSE IF \E n \in 1..Len(files) : Strip(files[n].description) = <<>>
         THEN "Please provide descriptions for all input files."
    ELSE IF secs = <<>> THEN "Please add at least one section."
    ELSE IF \E n \in 1..Len(secs) : Strip(secs[n].title) = <<>>
         THEN "Please provide titles for all sections."
    ELSE "ok"

\* the elif chain of lines 223-236: the warning shown, or "ok"
Validate(mc, files, secs) ==
    IF Strip(mc) = <<>> THEN "Please provide a Master Context before generating."
    ELSE IF files = <<>> THEN "Please add at least one input file."
    ELSE IF \E n \in 1..Len(files) : Strip(files[n].name) = <<>>
         THEN "Please provide names for all input files."
    ELSE IF \E n \in 1..Len(files) : Strip(files[n].description) = <<>>
         THEN "Please provide descriptions for all input files."
    ELSE IF secs = <<>> THEN "Please add at least one section."
    ELSE IF \E n \in 1..Len(secs) : Strip(secs[n].title) = <<>>
         THEN "Please provide titles for all sections."
    ELSE IF \E n \in 1..Len(secs) : Strip(secs[n].goal) = <<>>
         THEN "Please provide goals for all sections."
    ELSE "ok"

NoCall  == [fn |-> "none"]        \* no helper function is applied on its own
Pending == [kind |-> "pending"]   \* the function has not been applied yet

\* what the user types or picks in one interaction of a session
ContextTexts == {<<>>, <<"ctx">>}
NameTexts    == {<<>>, <<"Discovery", " ", "Call", " ", "Transcript">>}
DescTexts    == {<<>>, <<"Meeting", " ", "notes", " ", "and", " ", "transcript", "...">>}
TitleTexts   == {<<>>, <<"Scope", " ", "&", " ", "Risks">>}
GoalTexts    == {<<>>, <<"Summarize", " ", "the", " ", "client's", " ", "profile", "...">>}
TypePicks    == {<<"DOCX">>}
FormatPicks  == {<<"Table">>}

MaxFiles    == 2    \* rows of the input-file list
MaxSections == 2    \* rows of the section list

\* the replies and the failures of the model call that the batch is run against
BatchReplies ==
    {<<Word("not"), Word("json")>>,
     DumpObject(Members(<<Q(<<"text">>)>>, <<Q(<<"freeform">>)>>,
                        <<Q(<<"*", "*", "Role:", "*", "*", BSL, "n", "x">>)>>,
                        <<Q(<<"no">>)>>, <<Q(<<"none">>)>>)),
     DumpObject(Members(Absent, Absent, <<Null>>, Absent, Absent)),
     <<P("["), P("]")>>}
ModelFailures == {"AuthenticationError", "RateLimitError", "APIConnectionError"}

\* the except clauses of lines 285-291
Handled(exc) ==
    CASE exc = "AuthenticationError" ->
           <<Error("Authentication Error: Please check your OpenAI API key in the secrets.toml file.")>>
      [] exc = "RateLimitError" ->
           <<Error("Rate limit exceeded. Please wait a moment and try again.")>>
      [] OTHER ->
           <<Error("An error occurred: " \o exc),     \* the text of the exception
             Info("Tip: Make sure your OpenAI API key is correctly set in the secrets.toml file.")>>

\* A rerun of the script that is not a click on Generate: what the last run
\* of the handler showed is gone, and so are its locals.
Rerun ==
    /\ ui' = <<>>
    /\ api_calls' = <<>>
    /\ processed_sections' = <<>>
    /\ i' = 0
    /\ UNCHANGED <<docx_file, file_name, pc, arg, ret>>

SetMasterContext ==                                   \* line 151
    /\ pc = "idle"
    /\ \E t \in ContextTexts : master_context' = t
    /\ UNCHANGED <<input_files, sections>>
    /\ Rerun

SetInputFileName ==                                   \* line 173
    /\ pc = "idle"
    /\ \E k \in 1..Len(input_files), t \in NameTexts :
          input_files' = [input_files EXCEPT ![k].name = t]
    /\ UNCHANGED <<master_context, sections>>
    /\ Rerun

SetInputFileType ==                                   \* line 175
    /\ pc = "idle"
    /\ \E k \in 1..Len(input_files), t \in TypePicks :
          input_files' = [input_files EXCEPT ![k].type = t]
    /\ UNCHANGED <<master_context, sections>>
    /\ Rerun

SetInputFileDescription ==                            \* line 177
    /\ pc = "idle"
    /\ \E k \in 1..Len(input_files), t \in DescTexts :
          input_files' = [input_files EXCEPT ![k].description = t]
    /\ UNCHANGED <<master_context, sections>>
    /\ Rerun

\* list.pop; the rows are redrawn from the list after the rerun
Pop(s, k) == SubSeq(s, 1, k - 1) \o SubSeq(s, k + 1, Len(s))

DeleteInputFile ==                                    \* lines 179-181
    /\ pc = "idle"
    /\ \E k \in 1..Len(input_files) : input_files' = Pop(input_files, k)
    /\ UNCHANGED <<master_context, sections>>
    /\ Rerun

AddInputFile ==                                       \* lines 183-185
    /\ pc = "idle"
    /\ Len(input_files) < MaxFiles
    /\ input_files' = Append(input_files, FirstDrawFile(NewInputFile))
    /\ UNCHANGED <<master_context, sections>>
    /\ Rerun

SetSectionTitle ==                                    \* line 203
    /\ pc = "idle"
    /\ \E k \in 1..Len(sections), t \in TitleTexts :
          sections' = [sections EXCEPT ![k].title = t]
    /\ UNCHANGED <<master_context, input_files>>
    /\ Rerun

SetSectionFormat ==                                   \* line 205
    /\ pc = "idle"
    /\ \E k \in 1..Len(sections), t \in FormatPicks :
          sections' = [sections EXCEPT ![k].format = t]
    /\ UNCHANGED <<master_context, input_files>>
    /\ Rerun

SetSectionGoal ==                                     \* line 207
    /\ pc = "idle"
    /\ \E k \in 1..Len(sections), t \in GoalTexts :
          sections' = [sections EXCEPT ![k].goal = t]
    /\ UNCHANGED <<master_context, input_files>>
    /\ Rerun

DeleteSection ==                                      \* lines 209-211
    /\ pc = "idle"
    /\ \E k \in 1..Len(sections) : sections' = Pop(sections, k)
    /\ UNCHANGED <<master_context, input_files>>
    /\ Rerun

AddSection ==                                         \* lines 213-215
    /\ pc = "idle"
    /\ Len(sections) < MaxSections
    /\ sections' = Append(sections, FirstDrawSection(NewSection))
    /\ UNCHANGED <<master_context, input_files>>
    /\ Rerun

\* The click on Generate, up to the first model call: the validation chain
\* (lines 223-236), then the client from the secret (line 240), whose lookup
\* raises when the secret is not configured.
GenerateClick ==
    /\ pc = "idle"
    /\ LET warning == Validate(master_context, input_files, sections) IN
       \/ /\ warning # "ok"
          /\ ui' = <<Warning(warning)>>
          /\ pc' = "idle"
       \/ /\ warning = "ok"
          /\ \/ ui' = <<>> /\ pc' = "batch"
             \/ ui' = Handled("KeyError") /\ pc' = "idle"
    /\ i' = 0
    /\ processed_sections' = <<>>
    /\ api_calls' = <<>>
    /\ UNCHANGED <<master_context, input_files, sections, docx_file, file_name, arg, ret>>

\* lines 247-257: the prompt of the section at hand
PromptAtHand ==
    create_meta_prompt(master_context, input_files, sections[i + 1].title,
                       sections[i + 1].goal, sections[i + 1].format)

\* the failing turn with the sections done so far saved before the handler ends
ModelCallRaises_SavesPartial ==
    /\ pc = "batch"
    /\ \E exc \in ModelFailures :
          /\ api_calls' = Append(api_calls, [prompt |-> PromptAtHand, raised |-> exc])
          /\ ui' = ui \o Handled(exc)
    /\ pc' = "idle"
    /\ docx_file' = create_docx(TemplateTitle(sections[1].title), processed_sections)
    /\ file_name' = PyS(FileName(sections[1].title))
    /\ UNCHANGED <<master_context, input_files, sections, i, processed_sections, arg, ret>>

\* One turn of the loop in which the model call raises (line 260): the
\* except clauses end the handler.
ModelCallRaises ==
    /\ pc = "batch"
    /\ \E exc \in ModelFailures :
          /\ api_calls' = Append(api_calls, [prompt |-> PromptAtHand, raised |-> exc])
          /\ ui' = ui \o Handled(exc)
    /\ pc' = "idle"
    /\ UNCHANGED <<master_context, input_files, sections, docx_file, file_name, i,
                   processed_sections, arg, ret>>

\* lines 273-283, after the loop (the progress bar of lines 243, 248 and 273
\* is not kept in ui)
Finish(done, shown) ==
    /\ docx_file' = create_docx(TemplateTitle(sections[1].title), done)
    /\ file_name' = PyS(FileName(sections[1].title))
    /\ ui' = shown \o <<Success("Template generated successfully! Click the download button below to save your file.")>>
    /\ pc' = "idle"

\* One turn of the loop in which the model call returns a reply (lines
\* 246-271), and, after the last turn, the rest of the handler.
ModelCallReturns ==
    /\ pc = "batch"
    /\ \E reply \in BatchReplies :
          LET comment == format_comment_string(reply) IN
          /\ api_calls' = Append(api_calls, [prompt |-> PromptAtHand, returned |-> reply])
          /\ IF comment.kind = "raise"
             THEN /\ ui' = ui \o Handled(comment.exc)
                  /\ pc' = "idle"
                  /\ UNCHANGED <<i, processed_sections, docx_file, file_name>>
             ELSE LET done  == Append(processed_sections,
                                      [title          |-> sections[i + 1].title,
                                       comment_string |-> comment.value])
                      shown == ui \o [n \in 1..Len(comment.st_error) |->
                                         Error(comment.st_error[n])]
                  IN  /\ processed_sections' = done
                      /\ i' = i + 1
                      /\ IF i + 1 = Len(sections)
                         THEN Finish(done, shown)
                         ELSE /\ ui' = shown
                              /\ UNCHANGED <<pc, docx_file, file_name>>
    /\ UNCHANGED <<master_context, input_files, sections, arg, ret>>

\* line 294: the download button is drawn when the key is set
DownloadOffered == docx_file # NoFile

Init ==
    /\ master_context = <<>>
    /\ input_files = <<FirstDrawFile(DefaultInputFile)>>
    /\ sections = <<FirstDrawSection(DefaultSection)>>
    /\ docx_file = NoFile
    /\ file_name = NoFile
    /\ pc = "idle"
    /\ i = 0
    /\ processed_sections = <<>>
    /\ ui = <<>>
    /\ api_calls = <<>>
    /\ arg = NoCall
    /\ ret = Pending

Next ==
    \/ SetMasterContext
    \/ SetInputFileName
    \/ SetInputFileType
    \/ SetInputFileDescription
    \/ DeleteInputFile
    \/ AddInputFile
    \/ SetSectionTitle
    \/ SetSectionFormat
    \/ SetSectionGoal
    \/ DeleteSection
    \/ AddSection
    \/ GenerateClick
    \/ ModelCallRaises
    \/ ModelCallReturns

Spec == Init /\ [][Next]_vars

(***************************************************************************)
(* The Generate handler on every form of a bounded set: the form is filled *)
(* in, and Generate is clicked again and again on it.                      *)
(***************************************************************************)
MaxTitleLen == 3    \* longest title of the first section, in characters

TitleChars == {"E", " ", TAB, "&"}

FormFileRows ==
    {[name |-> n, type |-> <<"PDF">>, description |-> d] :
        n \in {<<>>, <<" ">>, <<"f">>}, d \in {<<>>, <<"d">>}}
FormSectionRows ==
    {[title |-> t, format |-> <<"Text (Freeform)">>, goal |-> g] :
        t \in {<<>>, <<"S">>}, g \in {<<TAB>>, <<"g">>}}

\* every combination of blank and non-blank fields
ValidationForms ==
    {[master_context |-> mc, input_files |-> fs, sections |-> ss] :
        mc \in {<<>>, <<" ">>, <<"ctx">>},
        fs \in SeqsUpTo(FormFileRows, MaxFiles),
        ss \in SeqsUpTo(FormSectionRows, MaxSections)}
\* every first title up to MaxTitleLen, alone or followed by the default section
TitleForms ==
    {[master_context |-> <<"ctx">>, input_files |-> <<FirstDrawFile(DefaultInputFile)>>,
      sections |-> <<[title |-> t, format |-> <<"Table">>, goal |-> <<"g">>]>> \o rest] :
        t \in SeqsUpTo(TitleChars, MaxTitleLen) \cup {DefaultSection.title},
        rest \in {<<>>, <<DefaultSection>>}}

Forms == ValidationForms \cup TitleForms

InitBatch ==
    /\ \E form \in Forms :
          /\ master_context = form.master_context
          /\ input_files = form.input_files
          /\ sections = form.sections
    /\ docx_file = NoFile
    /\ file_name = NoFile
    /\ pc = "idle"
    /\ i = 0
    /\ processed_sections = <<>>
    /\ ui = <<>>
    /\ api_calls = <<>>
    /\ arg = NoCall
    /\ ret = Pending

NextBatch ==
    \/ GenerateClick
    \/ ModelCallRaises
    \/ ModelCallReturns

SpecBatch == InitBatch /\ [][NextBatch]_vars

(***************************************************************************)
(* Pure functions applied to every input of a bounded set                  *)
(***************************************************************************)
\* the page as it is first drawn; a helper function leaves it alone
PageUntouched ==
    /\ master_context = <<>>
    /\ input_files = <<FirstDrawFile(DefaultInputFile)>>
    /\ sections = <<FirstDrawSection(DefaultSection)>>
    /\ docx_file = NoFile
    /\ file_name = NoFile
    /\ pc = "idle"
    /\ i = 0
    /\ processed_sections = <<>>
    /\ ui = <<>>
    /\ api_calls = <<>>

\* ---- format_comment_string ----
InitFormat ==
    /\ PageUntouched
    /\ \E r \in Replies : arg = [fn |-> "format_comment_string", json_string |-> r]
    /\ ret = Pending

CallFormat ==
    /\ arg.fn = "format_comment_string"
    /\ ret = Pending
    /\ ret' = format_comment_string(arg.json_string)
    /\ UNCHANGED <<arg, appVars>>

SpecFormat == InitFormat /\ [][CallFormat]_vars

\* ---- create_docx ----
MaxEntries == 3     \* longest list of ProcessedSection given to create_docx

Entries ==
    {[title |-> t, comment_string |-> c] :
        t \in {<<"A">>, <<"B">>}, c \in {PyNone, PyS(<<>>), PyS(<<"c">>)}}

InitDocx ==
    /\ PageUntouched
    /\ \E ps \in SeqsUpTo(Entries, MaxEntries) :
          arg = [fn |-> "create_docx", template_title |-> <<"A">>, processed_sections |-> ps]
    /\ ret = Pending

CallDocx ==
    /\ arg.fn = "create_docx"
    /\ ret = Pending
    /\ ret' = Return(create_docx(arg.template_title, arg.processed_sections), <<>>)
    /\ UNCHANGED <<arg, appVars>>

SpecDocx == InitDocx /\ [][CallDocx]_vars

\* ---- create_meta_prompt ----
MaxPromptFiles == 2     \* longest input-file list given to create_meta_prompt

PromptFileRows ==
    {[name |-> n, type |-> t, description |-> d] :
        n \in {<<>>, <<"f">>, <<"g">>}, t \in {<<"PDF">>, <<"CSV">>}, d \in {<<"d">>, <<"e">>}}

InitPrompt ==
    /\ PageUntouched
    /\ \E mc \in {<<>>, <<"ctx">>}, fs \in SeqsUpTo(PromptFileRows, MaxPromptFiles),
          t \in {<<"T">>, <<"T", " ", "&", " ", "U">>}, g \in {<<"G">>, <<" ">>}, f \in Formats :
          arg = [fn |-> "create_meta_prompt", master_context |-> mc, input_files |-> fs,
                 section_title |-> t, section_goal |-> g, output_format |-> f]
    /\ ret = Pending

CallPrompt ==
    /\ arg.fn = "create_meta_prompt"
    /\ ret = Pending
    /\ ret' = Return(PyS(create_meta_prompt(arg.master_context, arg.input_files,
                                            arg.section_title, arg.section_goal,
                                            arg.output_format)), <<>>)
    /\ UNCHANGED <<arg, appVars>>

SpecPrompt == InitPrompt /\ [][CallPrompt]_vars

(***************************************************************************)
(* Properties                                                              *)
(***************************************************************************)
Last(s) == s[Len(s)]
AllReturned == \A n \in 1..Len(api_calls) : "returned" \in DOMAIN api_calls[n]
HandlerEnded == pc = "idle" /\ ui # <<>>
Occurrences(s, x) == Cardinality({n \in 1..Len(s) : s[n] = x})

\* C1: once the batch has started, a run in which every model call returns a
\* reply string completes: one ProcessedSection per section, in section
\* order, each with a comment string or with no comment and a reported parse
\* error.
C1_BatchAbortsOnlyOnTransportFailure ==
    (HandlerEnded /\ api_calls # <<>> /\ AllReturned) =>
        /\ Last(ui).kind = "success"
        /\ Len(processed_sections) = Len(sections)
        /\ \A k \in 1..Len(sections) :
              /\ processed_sections[k].title = sections[k].title
              /\ processed_sections[k].comment_string.ty \in {"str", "None"}
        /\ Occurrences(ui, Error(InvalidFormatMsg))
              = Cardinality({k \in 1..Len(processed_sections) :
                                processed_sections[k].comment_string = PyNone})

\* ---- format_comment_string ----
Formatted == arg.fn = "format_comment_string" /\ ret.kind # "pending"
DecodesToObject(toks) == json_loads(toks).ok /\ json_loads(toks).val.ty = "dict"
PromptIsString(toks) ==
    /\ DecodesToObject(toks)
    /\ HasKey(json_loads(toks).val, K_prompt)
    /\ DictGet(json_loads(toks).val, K_prompt, PyNone).ty = "str"
IndexOf(s, x) == CHOOSE n \in 1..Len(s) : s[n] = x /\ \A m \in 1..(n - 1) : s[m] # x
\* what the block carries between "prompt - " and the line break before
\* "include_screenshots - "
PromptField(block) ==
    SubSeq(block, IndexOf(block, "prompt - ") + 1, IndexOf(block, "include_screenshots - ") - 2)

\* C2: an input that does not parse as JSON raises nothing, reports one
\* invalid-format error and returns None.
C2_MalformedJsonYieldsNone ==
    (Formatted /\ ~json_loads(arg.json_string).ok) =>
        /\ ret.kind = "return"
        /\ ret.value = PyNone
        /\ ret.st_error = <<InvalidFormatMsg>>
C2_Witness ==
    /\ Formatted
    /\ arg.json_string = <<Word("not"), Word("json")>>
    /\ ret = Return(PyNone, <<InvalidFormatMsg>>)

\* C3: for an object whose prompt is a string, the emitted prompt holds no two
\* adjacent asterisks.
C3_NoDoubleAsterisk ==
    (Formatted /\ PromptIsString(arg.json_string)) =>
        /\ ret.kind = "return"
        /\ ret.value.ty = "str"
        /\ LET out == PromptField(ret.value.s)
           IN  \A n \in 1..(Len(out) - 1) : ~(out[n] = "*" /\ out[n + 1] = "*")

\* C4: for an object whose prompt is a string, the emitted prompt holds no
\* line-break character (no LF and no CR).
C4_PromptOnOneLine ==
    (Formatted /\ PromptIsString(arg.json_string)) =>
        /\ ret.kind = "return"
        /\ ret.value.ty = "str"
        /\ LET out == PromptField(ret.value.s)
           IN  \A n \in 1..Len(out) : out[n] \notin {LF, CR}

\* the text cut at its line breaks
RECURSIVE SplitLines(_)
SplitLines(s) ==
    IF \A n \in 1..Len(s) : s[n] # LF THEN <<s>>
    ELSE LET n == IndexOf(s, LF)
         IN  <<SubSeq(s, 1, n - 1)>> \o SplitLines(SubSeq(s, n + 1, Len(s)))
FieldOr(toks, key, default) == PyStr(DictGet(json_loads(toks).val, key, PyS(default)))

\* C5: every input that decodes to an object gives a block of exactly five
\* lines, the five labels in order, each followed by its field's value or by
\* its default ("", "", "", "no", "none").
C5_FiveLineBlock ==
    (Formatted /\ DecodesToObject(arg.json_string)) =>
        /\ ret.kind = "return"
        /\ ret.value.ty = "str"
        /\ LET lines == SplitLines(ret.value.s)
               toks  == arg.json_string
           IN  /\ Len(lines) = 5
               /\ lines[1] = <<"type - ">> \o FieldOr(toks, K_type, <<>>)
               /\ lines[2] = <<"sub_type - ">> \o FieldOr(toks, K_sub_type, <<>>)
               /\ Head(lines[3]) = "prompt - "
               /\ HasKey(json_loads(toks).val, K_prompt) \/ lines[3] = <<"prompt - ">>
               /\ lines[4] = <<"include_screenshots - ">> \o FieldOr(toks, K_include, <<"n", "o">>)
               /\ lines[5] = <<"screenshot_instructions - ">>
                             \o FieldOr(toks, K_instr, <<"n", "o", "n", "e">>)

\* ---- create_docx ----
Assembled == arg.fn = "create_docx" /\ ret.kind # "pending"
HeadingsMatch(document, entries) ==
    /\ Len(document.headings) = Len(entries)
    /\ \A k \in 1..Len(entries) :
          document.headings[k] = [text |-> entries[k].title, level |-> 1]
\* the comments are those of the entries that satisfy Commented, one each, in
\* the order of the entries, by System, anchored to the entry's heading
CommentsMatch(document, entries, Commented(_)) ==
    LET cs == document.comments IN
    /\ \A k \in 1..Len(entries) :
          Cardinality({n \in 1..Len(cs) : cs[n].anchor = k})
              = IF Commented(entries[k]) THEN 1 ELSE 0
    /\ \A n \in 1..Len(cs) :
          /\ cs[n].anchor \in 1..Len(entries)
          /\ cs[n].author = "System"
          /\ cs[n].text = entries[cs[n].anchor].comment_string.s
          /\ \A m \in 1..(n - 1) : cs[m].anchor < cs[n].anchor
NonAbsent(e) == e.comment_string # PyNone
NonEmpty(e)  == e.comment_string # PyNone /\ e.comment_string.s # <<>>

NonBlank(s) == \E n \in 1..Len(s) : s[n] \notin Whitespace
FormComplete ==
    /\ NonBlank(master_context)
    /\ input_files # <<>>
    /\ \A n \in 1..Len(input_files) :
          NonBlank(input_files[n].name) /\ NonBlank(input_files[n].description)
    /\ sections # <<>>
    /\ \A n \in 1..Len(sections) : NonBlank(sections[n].title) /\ NonBlank(sections[n].goal)

\* C7: a click on Generate with a required input missing or blank shows a
\* warning and does nothing else: no model call, no section processed, the
\* stored document and file name untouched; and a model call is made only on
\* a form that passes every check.
C7_IncompleteFormOnlyWarns ==
    /\ [](pc = "batch" \/ api_calls # <<>> => FormComplete)
    /\ [][(pc = "idle" /\ ~FormComplete /\ ui' # <<>>) =>
             /\ Len(ui') = 1
             /\ ui'[1].kind = "warning"
             /\ pc' = "idle"
             /\ api_calls' = <<>>
             /\ processed_sections' = <<>>
             /\ UNCHANGED <<docx_file, file_name>>]_vars
C7_Witness ==
    /\ ~FormComplete
    /\ NonBlank(master_context)
    /\ input_files # <<>>
    /\ sections # <<>>
    /\ \A n \in 1..Len(sections) : NonBlank(sections[n].title)
    /\ ui = <<Warning("Please provide goals for all sections.")>>
    /\ api_calls = <<>>

\* C8: a step that does not complete a batch leaves the stored document and
\* the stored file name as they are, and what a completing step stores is
\* built from all the sections: no aborted batch stores anything.
C8_AbortStoresNothing ==
    [][(docx_file' # docx_file \/ file_name' # file_name) =>
          /\ pc = "batch" /\ pc' = "idle"
          /\ Last(ui').kind = "success"
          /\ \A n \in 1..Len(api_calls') : "returned" \in DOMAIN api_calls'[n]
          /\ Len(docx_file'.document.headings) = Len(sections)
          /\ \A k \in 1..Len(sections) :
                docx_file'.document.headings[k].text = sections[k].title]_vars
\* a batch aborted after its first section, with the document of an earlier
\* batch still stored
C8_Witness ==
    /\ HandlerEnded
    /\ Len(api_calls) = 2
    /\ Last(ui).kind \in {"error", "info"}
    /\ processed_sections # <<>>
    /\ DownloadOffered
    /\ file_name # NoFile

\* ---- create_meta_prompt ----
Built == arg.fn = "create_meta_prompt" /\ ret.kind # "pending"
Occurs(s, t, p) == p + Len(t) - 1 <= Len(s) /\ SubSeq(s, p, p + Len(t) - 1) = t
Contains(s, t) == \E p \in 1..(Len(s) + 1) : Occurs(s, t, p)
\* the first place at or after p where t occurs in s, 0 when there is none
FindFrom(s, t, p) ==
    IF \E q \in p..(Len(s) + 1) : Occurs(s, t, q)
    THEN CHOOSE q \in p..(Len(s) + 1) :
            Occurs(s, t, q) /\ \A r \in p..(q - 1) : ~Occurs(s, t, r)
    ELSE 0
\* names and descriptions occur one after the other, file by file
RECURSIVE FilesInOrder(_, _, _)
FilesInOrder(s, files, p) ==
    IF files = <<>> THEN TRUE
    ELSE LET a == FindFrom(s, Head(files).name, p)
             b == IF a = 0 THEN 0
                  ELSE FindFrom(s, Head(files).description, a + Len(Head(files).name))
         IN  /\ a # 0
             /\ b # 0
             /\ FilesInOrder(s, Tail(files), b + Len(Head(files).description))
ValidTriple ==
    /\ NonBlank(arg.master_context)
    /\ arg.input_files # <<>>
    /\ \A n \in 1..Len(arg.input_files) :
          NonBlank(arg.input_files[n].name) /\ NonBlank(arg.input_files[n].description)
    /\ NonBlank(arg.section_title)
    /\ NonBlank(arg.section_goal)

\* C9: for a valid triple the prompt holds the title, the goal and the format
\* verbatim, and the name and description of every input file verbatim, the
\* files in list order.
C9_PromptCarriesInputs ==
    (Built /\ ValidTriple) =>
        LET out == ret.value.s IN
        /\ Contains(out, arg.section_title)
        /\ Contains(out, arg.section_goal)
        /\ Contains(out, arg.output_format)
        /\ FilesInOrder(out, arg.input_files, 1)
C9_Witness ==
    /\ Built /\ ValidTriple
    /\ Len(arg.input_files) = 2
    /\ arg.input_files[1].name = <<"g">>
    /\ arg.input_files[2].name = <<"f">>
    /\ FindFrom(ret.value.s, <<"g">>, 1) < FindFrom(ret.value.s, <<"f">>, 1)

\* ---- the file name ----
\* the title up to its first "&", cut at the first and the last character
\* that is no whitespace, every space of it an underscore
ExpectedStem(title) ==
    LET amps == {n \in 1..Len(title) : title[n] = "&"}
        stop == IF amps = {} THEN Len(title)
                ELSE (CHOOSE n \in amps : \A m \in amps : n <= m) - 1
        inked == {n \in 1..stop : title[n] \notin Whitespace}
        from == CHOOSE n \in inked : \A m \in inked : n <= m
        to   == CHOOSE n \in inked : \A m \in inked : m <= n
    IN  IF inked = {} THEN <<>>
        ELSE [n \in 1..(to - from + 1) |->
                 IF title[from + n - 1] = " " THEN "_" ELSE title[from + n - 1]]

\* C10: after a batch that completes, the stored file name is
\* Klarity_Template_ + the stem of the first section's title + .docx.
C10_FileNameFromFirstTitle ==
    (HandlerEnded /\ Last(ui).kind = "success") =>
        /\ file_name.ty = "str"
        /\ file_name.s = <<"Klarity_Template_">> \o ExpectedStem(sections[1].title) \o <<".docx">>
C10_Witness ==
    /\ HandlerEnded /\ Last(ui).kind = "success"
    /\ sections[1].title = <<"Executive", " ", "Summary", " ", "&", " ", "Key", " ", "Themes">>
    /\ file_name = PyS(<<"Klarity_Template_", "Executive", "_", "Summary", ".docx">>)

=============================================================================
